---- MODULE Spec2Model ----
(***************************************************************************)
(* A model of GPU/Common/ReplacedTexture.cpp: the texture replacement      *)
(* handle (ReplacedTexture), its background load task                      *)
(* (ReplacedTextureTask), the shared level cache entry                     *)
(* (ReplacedLevelsCache) and the per-level loader (LoadLevelData).         *)
(*                                                                         *)
(* Threads: one calling thread (the render loop) runs FinishPopulate,      *)
(* IsReady, PurgeIfOlder, CopyLevelTo and the destructor, one call at a    *)
(* time; every submitted task runs on a worker thread of its own.          *)
(* Two handles are bound to the same cache entry.                          *)
(***************************************************************************)
EXTENDS Integers, Sequences, FiniteSets, TLC

\* ------------------------------------------------------------------ bounds

\* The clock (time_now_d) runs from 0 to MaxTime.
MaxTime == 1

\* Heap addresses a LimitedWaitable can be allocated at.
NumSlots == 2

\* ReplacedTexture.h
MAX_REPLACEMENT_MIP_LEVELS == 12

\* The handles: both bound to the one cache entry.
Handles == {1, 2}

Slots == 1..NumSlots

\* The budgets IsReady is called with: negative, zero, positive.
Budgets == {-1, 0, 1}

\* The thresholds PurgeIfOlder is called with: times not after the call.
Thresholds == 1..MaxTime

\* The row pitches CopyLevelTo is called with.
RowPitches == {4, 8}

NoSlot == 0

\* ---------------------------------------------------------------- helpers

Min(a, b) == IF a < b THEN a ELSE b

Max(a, b) == IF a > b THEN a ELSE b

RECURSIVE Pow2(_)
Pow2(n) == IF n <= 0 THEN 1 ELSE 2 * Pow2(n - 1)

\* x >> n on a non-negative int
Shr(x, n) == x \div Pow2(n)

\* RoundUpTo4: (value + 3) & ~3
RoundUpTo4(value) == ((value + 3) \div 4) * 4

\* A byte buffer of the cache entry (std::vector<uint8_t>): its size and the
\* image the bytes were decoded from, <<file, mip>> (<< >> when it holds none).
EmptyBuf == [len |-> 0, src |-> << >>]

Buf(len, file, mip) == IF len = 0 THEN EmptyBuf ELSE [len |-> len, src |-> <<file, mip>>]

\* std::vector::resize on the entry's buffer sequence: new elements are empty.
Resize(data, n) ==
    IF Len(data) >= n THEN SubSeq(data, 1, n)
    ELSE data \o [k \in 1..(n - Len(data)) |-> EmptyBuf]

\* --------------------------------------------------------- the descriptor

\* One candidate file as the VFS and the decoders see it.
\*   name  : FALSE for an empty filename
\*   ref   : GetFile finds it          open : OpenFileForRead succeeds
\*   type  : what Identify returns     hdr  : the header reads and is valid
\*   w, h  : the header's size         mips : the header's mip count
\*   fourcc: DDS pixel format code     codec: KTX2 payload (etc1s, uastc, other)
\*   body  : "ok", "fail" (the decoder rejects the body), "short" (ZIM read is
\*           short), "finish" (png_image_finish_read fails)
\*   bw, bh: the size the body decodes to
\*   alphaFlag: PNG_FORMAT_FLAG_ALPHA  check: what CheckAlpha32Rect finds
BaseFile ==
    [name |-> TRUE, ref |-> TRUE, open |-> TRUE, type |-> "PNG", hdr |-> TRUE,
     w |-> 2, h |-> 2, mips |-> 1, fourcc |-> "none", codec |-> "none",
     body |-> "ok", bw |-> 2, bh |-> 2, alphaFlag |-> TRUE, check |-> "FULL"]

Png(w, h) == [BaseFile EXCEPT !.w = w, !.h = h, !.bw = w, !.bh = h]

Zim(w, h) == [Png(w, h) EXCEPT !.type = "ZIM", !.check = "ANY"]

Dds(w, h, mips, fourcc) ==
    [Png(w, h) EXCEPT !.type = "DDS", !.mips = mips, !.fourcc = fourcc]

NoFile == [BaseFile EXCEPT !.ref = FALSE]

\* A descriptor (ReplacementDesc): the candidate files, the original size
\* (w, h), the replaced size (newW, newH) and the device's format support.
Desc(filenames) ==
    [filenames |-> filenames, w |-> 2, h |-> 2, newW |-> 2, newH |-> 2,
     bc123 |-> TRUE, bc7 |-> FALSE, etc2 |-> FALSE, astc |-> FALSE]

\* The descriptors the handles are populated with.
Descs ==
    { Desc(<< >>),
      Desc(<<NoFile>>),
      Desc(<<Png(2, 2), Png(1, 1)>>),
      Desc(<<[Png(2, 2) EXCEPT !.hdr = FALSE]>>),
      Desc(<<Dds(2, 2, 2, "DXT1")>>) }

\* ------------------------------------------------------------ LoadLevelData

\* Draw::DataFormatIsBlockCompressed: the block size, 0 when not compressed.
BlockSize(pf) ==
    CASE pf = "BC1_RGBA_UNORM_BLOCK" -> 8
      [] pf = "ETC2_R8G8B8_UNORM_BLOCK" -> 8
      [] pf \in {"BC2_UNORM_BLOCK", "BC3_UNORM_BLOCK", "BC7_UNORM_BLOCK",
                 "ASTC_4x4_UNORM_BLOCK"} -> 16
      [] OTHER -> 0

\* The header stage of LoadLevelData: what the file's leading bytes give.
\* pfIn is *pixelFormat as the caller left it (a type that sets none keeps it).
Header(f, d, pfIn) ==
    CASE f.type = "KTX2" ->
           [good |-> f.hdr, w |-> f.w, h |-> f.h, numMips |-> f.mips, pf |-> pfIn]
      [] f.type = "DDS" ->
           LET dx10 == f.fourcc \in {"DX10_98", "DX10_99", "DX10_other"}
               pf == CASE f.fourcc \in {"DX10_98", "DX10_99"} -> "BC7_UNORM_BLOCK"
                       [] f.fourcc = "DXT1" -> "BC1_RGBA_UNORM_BLOCK"
                       [] f.fourcc = "DXT3" -> "BC2_UNORM_BLOCK"
                       [] f.fourcc = "DXT5" -> "BC3_UNORM_BLOCK"
                       [] OTHER -> "UNDEFINED"
               good == /\ f.hdr
                       /\ f.fourcc # "none"
                       /\ IF dx10 THEN f.fourcc # "DX10_other" /\ d.bc7
                          ELSE d.bc123 /\ f.fourcc \in {"DXT1", "DXT3", "DXT5"}
           IN  [good |-> good, w |-> f.w, h |-> f.h, numMips |-> f.mips,
                pf |-> IF f.hdr THEN pf ELSE "UNDEFINED"]
      [] f.type = "ZIM" ->
           [good |-> f.hdr, w |-> f.w, h |-> f.h, numMips |-> 1,
            pf |-> "R8G8B8A8_UNORM"]
      [] f.type = "PNG" ->
           [good |-> f.hdr, w |-> IF f.hdr THEN f.w ELSE 0,
            h |-> IF f.hdr THEN f.h ELSE 0, numMips |-> 1,
            pf |-> "R8G8B8A8_UNORM"]
      [] OTHER ->  \* BASIS, INVALID
           [good |-> FALSE, w |-> 0, h |-> 0, numMips |-> 1, pf |-> pfIn]

\* alphaStatus_ taken from every level's pixel check.
AlphaFromEveryLevel(res, mipLevel, alpha) == res

\* alphaStatus_ after CheckAlpha32Rect returned res for level mipLevel:
\* if (res == CHECKALPHA_ANY || mipLevel == 0) alphaStatus_ = res.
AlphaAfterCheck(res, mipLevel, alpha) ==
    IF res = "ANY" \/ mipLevel = 0 THEN res ELSE alpha

\* What one call of LoadLevelData leaves behind.
Outcome(res, lv, data, alpha, pf) ==
    [res |-> res, levels |-> lv, data |-> data, alpha |-> alpha, pf |-> pf,
     crash |-> "no"]

CrashOutcome(why, lv, data, alpha, pf) ==
    [res |-> "LOAD_ERROR", levels |-> lv, data |-> data, alpha |-> alpha,
     pf |-> pf, crash |-> why]

\* The DDS mip loop: mips i..numMips-1 of file `file`, the first at (w, h).
\* A buffer index past the end of the entry's sequence is an out-of-bounds
\* write; the loop result records it in oob and drops the write.
RECURSIVE DdsLoop(_, _, _, _, _, _, _, _, _)
DdsLoop(i, numMips, mipLevel, file, w, h, blockSize, lv, data) ==
    IF i >= numMips THEN [levels |-> lv, data |-> data, oob |-> FALSE]
    ELSE
        LET k == mipLevel + i + 1
            bytes == (RoundUpTo4(w) * RoundUpTo4(h) * blockSize) \div 16
            inRange == k <= Len(data)
            data2 == IF inRange THEN [data EXCEPT ![k] = Buf(bytes, file, i)]
                     ELSE data
            \* fileRef is cleared after the push, and only when i # 0
            lv2 == Append(lv, [w |-> w, h |-> h,
                               fileRef |-> IF i <= 1 THEN file ELSE 0])
            rest == DdsLoop(i + 1, numMips, mipLevel, file, Max(w \div 2, 1),
                            Max(h \div 2, 1), blockSize, lv2, data2)
        IN  [rest EXCEPT !.oob = rest.oob \/ ~inRange]

\* The KTX2 mip loop: the buffer written is data[mipLevel + i], the one
\* resized is data[i]; the level takes the mip's own (unscaled) size.
RECURSIVE KtxLoop(_, _, _, _, _, _, _, _)
KtxLoop(i, numMips, mipLevel, file, f, blockSize, lv, data) ==
    IF i >= numMips THEN [levels |-> lv, data |-> data, oob |-> FALSE]
    ELSE
        LET k == mipLevel + i + 1
            ow == Max(1, Shr(f.bw, i))
            oh == Max(1, Shr(f.bh, i))
            bytes == IF blockSize = 0 THEN ow * oh * 4
                     ELSE ((RoundUpTo4(ow) \div 4) * (RoundUpTo4(oh) \div 4)) * blockSize
            inRange == k <= Len(data) /\ mipLevel = 0
            data2 == IF inRange THEN [data EXCEPT ![k] = Buf(bytes, file, i)]
                     ELSE [data EXCEPT ![i + 1] = Buf(bytes, 0, 0)]
            lv2 == Append(lv, [w |-> ow, h |-> oh,
                               fileRef |-> IF i = 0 THEN file ELSE 0])
            rest == KtxLoop(i + 1, numMips, mipLevel, file, f, blockSize, lv2, data2)
        IN  [rest EXCEPT !.oob = rest.oob \/ ~inRange]

\* LoadLevelData(fileRef, filename, mipLevel, pixelFormat) on handle state
\* (lv = levels_, alpha = alphaStatus_) and the entry's (data, cfmt): the set
\* of outcomes it can have.  file is the index of the file in the descriptor.
LoadLevelData(f, file, mipLevel, pfIn, d, lv, alpha, data, cfmt) ==
    LET data1 == IF Len(data) <= mipLevel THEN Resize(data, mipLevel + 1) ELSE data
        hd == Header(f, d, pfIn)
        lw == (hd.w * d.w) \div d.newW
        lh == (hd.h * d.h) \div d.newH
    IN
    IF ~f.open THEN {Outcome("DONE", lv, data1, alpha, pfIn)}
    ELSE IF data1[mipLevel + 1].len # 0
    THEN {Outcome("DONE", lv, data1, alpha, cfmt)}
    ELSE IF hd.good /\ mipLevel # 0 /\ lv = << >>
    THEN \* levels_[0] of an empty vector
         {CrashOutcome("levels_[0]", lv, data1, alpha, hd.pf)}
    ELSE IF ~hd.good \/ (mipLevel # 0 /\ (lw # Shr(lv[1].w, mipLevel)
                                          \/ lh # Shr(lv[1].h, mipLevel)))
    THEN {Outcome("LOAD_ERROR", lv, data1, alpha, hd.pf)}
    ELSE
    CASE f.type = "KTX2" ->
           IF f.body # "ok" \/ f.codec \notin {"etc1s", "uastc"}
           THEN {Outcome("LOAD_ERROR", lv, data1, alpha, hd.pf)}
           ELSE
             LET pf == IF f.codec = "etc1s"
                       THEN (IF d.bc123 THEN "BC1_RGBA_UNORM_BLOCK"
                             ELSE IF d.etc2 THEN "ETC2_R8G8B8_UNORM_BLOCK"
                             ELSE "R8G8B8A8_UNORM")
                       ELSE (IF d.bc7 THEN "BC7_UNORM_BLOCK"
                             ELSE IF d.astc THEN "ASTC_4x4_UNORM_BLOCK"
                             ELSE "R8G8B8A8_UNORM")
                 al == IF f.codec = "etc1s" THEN "FULL" ELSE "UNKNOWN"
                 r == KtxLoop(0, hd.numMips, mipLevel, file, f, BlockSize(pf), lv,
                              Resize(data1, hd.numMips))
             IN  IF r.oob
                 THEN {CrashOutcome("data[mipLevel + i]", r.levels, r.data, al, pf),
                       Outcome("DONE", r.levels, r.data, al, pf)}
                 ELSE {Outcome("DONE", r.levels, r.data, al, pf)}
      [] f.type = "DDS" ->
           LET r == DdsLoop(0, hd.numMips, mipLevel, file, lw, lh, BlockSize(hd.pf),
                            lv, Resize(data1, hd.numMips))
           IN  IF r.oob
               THEN {CrashOutcome("data[mipLevel + i]", r.levels, r.data, "UNKNOWN", hd.pf),
                     Outcome("DONE", r.levels, r.data, "UNKNOWN", hd.pf)}
               ELSE {Outcome("DONE", r.levels, r.data, "UNKNOWN", hd.pf)}
      [] f.type = "ZIM" ->
           IF f.body = "short" THEN {Outcome("LOAD_ERROR", lv, data1, alpha, hd.pf)}
           ELSE IF f.body = "fail" THEN {Outcome("CONTINUE", lv, data1, alpha, hd.pf)}
           ELSE IF f.bw > lw \/ f.bh > lh
           THEN {Outcome("LOAD_ERROR", lv, data1, alpha, hd.pf)}
           ELSE {Outcome("CONTINUE",
                         Append(lv, [w |-> lw, h |-> lh, fileRef |-> file]),
                         [data1 EXCEPT ![mipLevel + 1] = Buf(lw * lh * 4, file, 0)],
                         AlphaAfterCheck(f.check, mipLevel, alpha),
                         hd.pf)}
      [] f.type = "PNG" ->
           IF f.body = "fail" \/ f.bw > lw \/ f.bh > lh
           THEN {Outcome("LOAD_ERROR", lv, data1, alpha, hd.pf)}
           ELSE
             LET al1 == IF ~f.alphaFlag /\ mipLevel = 0 THEN "FULL" ELSE alpha
                 al2 == IF f.alphaFlag THEN AlphaAfterCheck(f.check, mipLevel, al1)
                        ELSE al1
             IN  IF f.body = "finish"
                 THEN {Outcome("LOAD_ERROR", lv, data1, al1, hd.pf)}
                 ELSE {Outcome("CONTINUE",
                               Append(lv, [w |-> lw, h |-> lh, fileRef |-> file]),
                               [data1 EXCEPT ![mipLevel + 1] = Buf(lw * lh * 4, file, 0)],
                               al2, hd.pf)}
      [] OTHER -> {Outcome("LOAD_ERROR", lv, data1, alpha, hd.pf)}

\* ------------------------------------------------------------------ state

VARIABLES
    descData,        \* the ReplacementDesc both handles are populated with
    state,           \* state_           per handle
    desc,            \* desc_ != nullptr per handle
    levelData,       \* levelData_ != nullptr (bound to the cache entry)
    levels,          \* levels_          sequence of [w, h, fileRef]
    alphaStatus,     \* alphaStatus_
    fmt,             \* fmt              the handle's format
    lastUsed,        \* lastUsed_
    threadWaitable,  \* threadWaitable_  a slot, or NoSlot for nullptr
    mutex,           \* mutex_           "free", "task" or "dtor"
    alive,           \* FALSE once the destructor has returned
    fileRefs,        \* per handle and file: references taken and not released
    cache,           \* the cache entry: [data, fmt, lastUsed]
    cacheLock,       \* the entry's lock: "free" or "task" (a caller holds it
                     \* within one step only)
    heap,            \* per slot: "free", "armed" (triggered_ false), "triggered"
    tasks,           \* per handle: its tasks not yet returned from Run
    caller,          \* the calling thread: where it is, in which call
    ret,             \* the call that has just returned, and what it returned;
                     \* NoRet after any further step
    now,             \* time_now_d()
    crashed          \* "no", or why the process ended

handleVars == <<state, desc, levelData, levels, alphaStatus, fmt, lastUsed,
                threadWaitable, mutex, alive, fileRefs>>

vars == <<descData, state, desc, levelData, levels, alphaStatus, fmt, lastUsed,
          threadWaitable, mutex, alive, fileRefs, cache, cacheLock, heap,
          tasks, caller, ret, now, crashed>>

Idle == [pc |-> "idle", h |-> 0, level |-> 0, pitch |-> 0]

\* The destination of CopyLevelTo with nothing written to it.
Clean == [len |-> 0, src |-> << >>, pitch |-> 0]

NoRet == [op |-> "none", h |-> 0, val |-> FALSE, line |-> 0, dst |-> Clean]

Fresh ==
    /\ state = [h \in Handles |-> "UNINITIALIZED"]
    /\ desc = [h \in Handles |-> FALSE]
    /\ levelData = [h \in Handles |-> FALSE]
    /\ levels = [h \in Handles |-> << >>]
    /\ alphaStatus = [h \in Handles |-> "UNKNOWN"]
    /\ fmt = [h \in Handles |-> "UNDEFINED"]
    /\ lastUsed = [h \in Handles |-> 0]
    /\ threadWaitable = [h \in Handles |-> NoSlot]
    /\ mutex = [h \in Handles |-> "free"]
    /\ alive = [h \in Handles |-> TRUE]
    /\ fileRefs = [h \in Handles |-> [f \in 1..Len(descData.filenames) |-> 0]]
    /\ cache = [data |-> << >>, fmt |-> "UNDEFINED", lastUsed |-> 0]
    /\ cacheLock = "free"
    /\ heap = [s \in Slots |-> "free"]
    /\ tasks = [h \in Handles |-> << >>]
    /\ caller = Idle
    /\ ret = NoRet
    /\ now = 0

Init ==
    /\ descData \in Descs
    /\ Fresh
    /\ crashed = "no"

\* The process ends (a failed _assert_, a fault): nothing of it is left.
Crash(why) ==
    /\ crashed' = why
    /\ UNCHANGED descData
    /\ state' = [h \in Handles |-> "UNINITIALIZED"]
    /\ desc' = [h \in Handles |-> FALSE]
    /\ levelData' = [h \in Handles |-> FALSE]
    /\ levels' = [h \in Handles |-> << >>]
    /\ alphaStatus' = [h \in Handles |-> "UNKNOWN"]
    /\ fmt' = [h \in Handles |-> "UNDEFINED"]
    /\ lastUsed' = [h \in Handles |-> 0]
    /\ threadWaitable' = [h \in Handles |-> NoSlot]
    /\ mutex' = [h \in Handles |-> "free"]
    /\ alive' = [h \in Handles |-> FALSE]
    /\ fileRefs' = [h \in Handles |-> [f \in 1..Len(descData.filenames) |-> 0]]
    /\ cache' = [data |-> << >>, fmt |-> "UNDEFINED", lastUsed |-> 0]
    /\ cacheLock' = "free"
    /\ heap' = [s \in Slots |-> "free"]
    /\ tasks' = [h \in Handles |-> << >>]
    /\ caller' = Idle
    /\ ret' = NoRet
    /\ now' = 0

\* ------------------------------------------------------- the calling thread

Running == crashed = "no"

CallerIdle == Running /\ caller.pc = "idle"

\* A call returns at `line`: the calling thread is idle again.
Return(op, h, val, line) ==
    /\ caller' = Idle
    /\ ret' = [op |-> op, h |-> h, val |-> val, line |-> line, dst |-> Clean]

\* CopyLevelTo returns having written d to its destination.
ReturnCopy(h, val, line, d) ==
    /\ caller' = Idle
    /\ ret' = [op |-> "CopyLevelTo", h |-> h, val |-> val, line |-> line, dst |-> d]

\* LimitedWaitable::WaitFor, at the moment it returns: triggered_.
Triggered(s) == heap[s] = "triggered"

\* Some task still holds a pointer to the deleted waitable at s.
Dangling(s) ==
    \E h \in Handles : \E k \in 1..Len(tasks[h]) :
       tasks[h][k].w = s /\ tasks[h][k].dangling

\* new LimitedWaitable(): the addresses it can come back with.  Free
\* addresses no pointer refers to are interchangeable, the lowest stands for
\* them; a free address a task still points to is told apart.
AllocSlots ==
    LET free == {s \in Slots : heap[s] = "free"}
        plain == {s \in free : ~Dangling(s)}
    IN  {s \in free : Dangling(s)}
          \cup {s \in plain : \A s2 \in plain : s <= s2}

\* Waitable::WaitAndRelease once triggered: delete this.  Every task still
\* holding the address is left with a dangling pointer.
Release(s) ==
    /\ heap' = [heap EXCEPT ![s] = "free"]
    /\ tasks' = [h \in Handles |->
                   [k \in 1..Len(tasks[h]) |->
                      IF tasks[h][k].w = s
                      THEN [tasks[h][k] EXCEPT !.dangling = TRUE]
                      ELSE tasks[h][k]]]

\* time_now_d() moves on between calls.
Tick ==
    /\ CallerIdle
    /\ now < MaxTime
    /\ now' = now + 1
    /\ ret' = NoRet
    /\ UNCHANGED <<descData, handleVars, cache, cacheLock, heap, tasks, caller,
                   crashed>>

\* ReplacedTexture::FinishPopulate, called once on a fresh handle.
FinishPopulate(h) ==
    /\ CallerIdle
    /\ alive[h]
    /\ state[h] = "UNINITIALIZED"
    /\ levelData' = [levelData EXCEPT ![h] = TRUE]
    /\ desc' = [desc EXCEPT ![h] = TRUE]
    /\ state' = [state EXCEPT ![h] = "POPULATED"]
    /\ caller' = Idle
    /\ ret' = NoRet
    /\ UNCHANGED <<descData, levels, alphaStatus, fmt, lastUsed, threadWaitable,
                   mutex, alive, fileRefs, cache, cacheLock, heap, tasks, now,
                   crashed>>

\* IsReady with POPULATED sent to the ACTIVE / NOT_FOUND case.
IsReadySwitchPopulated(st) ==
    CASE st \in {"ACTIVE", "NOT_FOUND", "POPULATED"} -> "ready"
      [] OTHER -> "false"

\* IsReady with PENDING sent to the ACTIVE / NOT_FOUND case.
IsReadySwitchPending(st) ==
    CASE st \in {"ACTIVE", "NOT_FOUND", "PENDING"} -> "ready"
      [] st = "POPULATED" -> "spawn"
      [] OTHER -> "false"

\* The switch of IsReady on State(): "ready" (the ACTIVE / NOT_FOUND case),
\* "spawn" (POPULATED: break out of the switch) or "false".
IsReadySwitch(st) ==
    CASE st \in {"ACTIVE", "NOT_FOUND"} -> "ready"
      [] st = "POPULATED" -> "spawn"
      [] OTHER -> "false"

\* The new task as IsReady enqueues it.
NewTask(s) ==
    [pc |-> "queued", w |-> s, dangling |-> FALSE, i |-> 0,
     result |-> "LOAD_ERROR", pixelFormat |-> "uninitialized"]

\* IsReady, the ACTIVE / NOT_FOUND case up to WaitFor, or to return true,
\* whatever the budget.
IsReadyActive(h) ==
    /\ CallerIdle
    /\ alive[h]
    /\ IsReadySwitch(state[h]) = "ready"
    /\ IF threadWaitable[h] # NoSlot
       THEN /\ caller' = [Idle EXCEPT !.pc = "IsReady_136", !.h = h]
            /\ ret' = NoRet
            /\ UNCHANGED lastUsed
       ELSE /\ lastUsed' = [lastUsed EXCEPT ![h] = now]
            /\ Return("IsReady", h, TRUE, 148)
    /\ UNCHANGED <<descData, state, desc, levelData, levels, alphaStatus, fmt,
                   threadWaitable, mutex, alive, fileRefs, cache, cacheLock, heap,
                   tasks, now, crashed>>

\* IsReady, the cases that return false out of the switch, whatever the
\* budget.
IsReadyFalse(h) ==
    /\ CallerIdle
    /\ alive[h]
    /\ IsReadySwitch(state[h]) = "false"
    /\ Return("IsReady", h, FALSE, 154)
    /\ UNCHANGED <<descData, handleVars, cache, cacheLock, heap, tasks, now,
                   crashed>>

\* IsReady, POPULATED with no budget left.
IsReadyDeclined(h, budget) ==
    /\ CallerIdle
    /\ alive[h]
    /\ IsReadySwitch(state[h]) = "spawn"
    /\ budget < 0
    /\ lastUsed' = [lastUsed EXCEPT ![h] = now]
    /\ Return("IsReady", h, FALSE, 164)
    /\ UNCHANGED <<descData, state, desc, levelData, levels, alphaStatus, fmt,
                   threadWaitable, mutex, alive, fileRefs, cache, cacheLock, heap,
                   tasks, now, crashed>>

\* IsReady, POPULATED: _assert_(!threadWaitable_) fails.
IsReadyAssert(h, budget) ==
    /\ CallerIdle
    /\ alive[h]
    /\ IsReadySwitch(state[h]) = "spawn"
    /\ budget >= 0
    /\ threadWaitable[h] # NoSlot
    /\ Crash("_assert_(!threadWaitable_)")

\* IsReady, POPULATED: the task is enqueued; up to WaitFor.
IsReadySpawn(h, budget) ==
    /\ CallerIdle
    /\ alive[h]
    /\ IsReadySwitch(state[h]) = "spawn"
    /\ budget >= 0
    /\ threadWaitable[h] = NoSlot
    /\ \E s \in AllocSlots :
         /\ lastUsed' = [lastUsed EXCEPT ![h] = now]
         /\ heap' = [heap EXCEPT ![s] = "armed"]
         /\ threadWaitable' = [threadWaitable EXCEPT ![h] = s]
         /\ state' = [state EXCEPT ![h] = "PENDING"]
         /\ tasks' = [tasks EXCEPT ![h] = Append(@, NewTask(s))]
    /\ caller' = [Idle EXCEPT !.pc = "IsReady_170", !.h = h]
    /\ ret' = NoRet
    /\ UNCHANGED <<descData, desc, levelData, levels, alphaStatus, fmt, mutex,
                   alive, fileRefs, cache, cacheLock, now, crashed>>

\* IsReady, ACTIVE / NOT_FOUND with a signal: WaitFor(budget) returns.
IsReadyWaited(h) ==
    /\ Running
    /\ caller.pc = "IsReady_136" /\ caller.h = h
    /\ LET s == threadWaitable[h] IN
       IF Triggered(s)
       THEN /\ Release(s)
            /\ threadWaitable' = [threadWaitable EXCEPT ![h] = NoSlot]
            /\ cache' = IF levelData[h] THEN [cache EXCEPT !.lastUsed = now]
                        ELSE cache
            /\ lastUsed' = [lastUsed EXCEPT ![h] = now]
            /\ Return("IsReady", h, TRUE, 148)
       ELSE /\ lastUsed' = [lastUsed EXCEPT ![h] = now]
            /\ Return("IsReady", h, FALSE, 138)
            /\ UNCHANGED <<threadWaitable, cache, heap, tasks>>
    /\ UNCHANGED <<descData, state, desc, levelData, levels, alphaStatus, fmt,
                   mutex, alive, fileRefs, cacheLock, now, crashed>>

\* IsReady after it enqueued the task: WaitFor(budget) returns.
IsReadySpawned(h) ==
    /\ Running
    /\ caller.pc = "IsReady_170" /\ caller.h = h
    /\ IF Triggered(threadWaitable[h])
       THEN IF state[h] \in {"ACTIVE", "NOT_FOUND", "CANCEL_INIT"}
            THEN /\ Return("IsReady", h, TRUE, 173)
                 /\ UNCHANGED <<descData, handleVars, cache, cacheLock, heap,
                                tasks, now, crashed>>
            ELSE Crash("_assert_(State())")
       ELSE /\ Return("IsReady", h, FALSE, 176)
            /\ UNCHANGED <<descData, handleVars, cache, cacheLock, heap, tasks,
                           now, crashed>>

\* The entry's buffers reached without waiting for its lock.
EntryLockSkipped == TRUE

\* std::lock_guard<std::mutex> guard(levelData_->lock) returns: no other
\* thread holds the entry's lock.
EntryLockAcquired == cacheLock = "free"

\* PurgeIfOlder gives up before the entry's lock.
PurgeSkips(h, t) ==
    \/ (threadWaitable[h] # NoSlot /\ ~Triggered(threadWaitable[h]))
    \/ lastUsed[h] >= t
    \/ ~(levelData[h] /\ cache.lastUsed < t)

\* PurgeIfOlder up to the entry's lock.
PurgeBegin(h, t) ==
    /\ CallerIdle
    /\ alive[h]
    /\ t <= now
    /\ IF PurgeSkips(h, t)
       THEN caller' = Idle
       ELSE caller' = [Idle EXCEPT !.pc = "Purge_119", !.h = h]
    /\ ret' = NoRet
    /\ UNCHANGED <<descData, handleVars, cache, cacheLock, heap, tasks, now,
                   crashed>>

\* PurgeIfOlder under the entry's lock.
PurgeLocked(h) ==
    /\ Running
    /\ caller.pc = "Purge_119" /\ caller.h = h
    /\ EntryLockAcquired
    /\ cache' = [cache EXCEPT !.data = << >>]
    /\ state' = [state EXCEPT ![h] = "POPULATED"]
    /\ Return("PurgeIfOlder", h, TRUE, 123)
    /\ UNCHANGED <<descData, desc, levelData, levels, alphaStatus, fmt, lastUsed,
                   threadWaitable, mutex, alive, fileRefs, cacheLock, heap, tasks,
                   now, crashed>>

\* CopyLevelTo up to the entry's lock.  The asserts are the caller's
\* precondition: level < levels_.size() and rowPitch > 0.
CopyBegin(h, level, rowPitch) ==
    /\ CallerIdle
    /\ alive[h]
    /\ level < Len(levels[h])
    /\ state[h] = "ACTIVE"
    /\ caller' = [Idle EXCEPT !.pc = "Copy_675", !.h = h, !.level = level,
                              !.pitch = rowPitch]
    /\ ret' = NoRet
    /\ UNCHANGED <<descData, handleVars, cache, cacheLock, heap, tasks, now,
                   crashed>>

\* CopyLevelTo in any other state, whatever the level and the pitch: "Init
\* not done yet".
CopyNotActive(h) ==
    /\ CallerIdle
    /\ alive[h]
    /\ 0 < Len(levels[h])
    /\ state[h] # "ACTIVE"
    /\ ReturnCopy(h, FALSE, 671, Clean)
    /\ UNCHANGED <<descData, handleVars, cache, cacheLock, heap, tasks, now,
                   crashed>>

\* What CopyLevelTo does under the lock with info = levels_[level] and
\* data = levelData_->data[level]: [ok, line, dst, crash].
CopyResult(info, data, f, rowPitch) ==
    IF data.len = 0
    THEN [ok |-> FALSE, line |-> 682, dst |-> Clean, crash |-> "no"]
    ELSE IF f = "R8G8B8A8_UNORM"
    THEN IF rowPitch < info.w * 4
         THEN [ok |-> FALSE, line |-> 690, dst |-> Clean, crash |-> "no"]
         ELSE IF data.len # info.w * info.h * 4
         THEN [ok |-> FALSE, line |-> 693, dst |-> Clean,
               crash |-> "Data has wrong size"]
         ELSE [ok |-> TRUE, line |-> 724, crash |-> "no",
               dst |-> [len |-> info.w * 4 * info.h, src |-> data.src,
                        pitch |-> rowPitch]]
    ELSE [ok |-> TRUE, line |-> 724, crash |-> "no",
          dst |-> [len |-> data.len, src |-> data.src, pitch |-> 0]]

\* What the destination holds after a copy from a buffer that is not there.
Garbage == [len |-> 1, src |-> <<0, 0>>, pitch |-> 0]

\* CopyLevelTo under the entry's lock, the buffer being in the sequence.
CopyLocked(h) ==
    /\ Running
    /\ caller.pc = "Copy_675" /\ caller.h = h
    /\ EntryLockAcquired
    /\ caller.level + 1 <= Len(cache.data)
    /\ LET r == CopyResult(levels[h][caller.level + 1],
                           cache.data[caller.level + 1], fmt[h], caller.pitch)
       IN  IF r.crash # "no"
           THEN Crash(r.crash)
           ELSE /\ ReturnCopy(h, r.ok, r.line, r.dst)
                /\ UNCHANGED <<descData, handleVars, cache, cacheLock, heap,
                               tasks, now, crashed>>

\* CopyLevelTo under the entry's lock, levelData_->data[level] being past
\* the end of the sequence: the read of a destroyed vector.  It may look
\* empty, look full of stale bytes, or fault.
CopyOutOfRange(h) ==
    /\ Running
    /\ caller.pc = "Copy_675" /\ caller.h = h
    /\ EntryLockAcquired
    /\ caller.level + 1 > Len(cache.data)
    /\ \/ /\ ReturnCopy(h, FALSE, 682, Clean)
          /\ UNCHANGED <<descData, handleVars, cache, cacheLock, heap, tasks, now,
                         crashed>>
       \/ /\ ReturnCopy(h, TRUE, 724, Garbage)
          /\ UNCHANGED <<descData, handleVars, cache, cacheLock, heap, tasks, now,
                         crashed>>
       \/ Crash("data[level]")

\* The end of ~ReplacedTexture: the file references of levels_ are
\* released, and the object is gone.
Destroyed(h) ==
    /\ fileRefs' = [fileRefs EXCEPT ![h] =
                      [f \in DOMAIN @ |->
                         @[f] - Cardinality({k \in 1..Len(levels[h]) :
                                               levels[h][k].fileRef = f})]]
    /\ alive' = [alive EXCEPT ![h] = FALSE]
    /\ state' = [state EXCEPT ![h] = "UNINITIALIZED"]
    /\ desc' = [desc EXCEPT ![h] = FALSE]
    /\ levelData' = [levelData EXCEPT ![h] = FALSE]
    /\ levels' = [levels EXCEPT ![h] = << >>]
    /\ alphaStatus' = [alphaStatus EXCEPT ![h] = "UNKNOWN"]
    /\ fmt' = [fmt EXCEPT ![h] = "UNDEFINED"]
    /\ lastUsed' = [lastUsed EXCEPT ![h] = 0]
    /\ threadWaitable' = [threadWaitable EXCEPT ![h] = NoSlot]

\* ~ReplacedTexture with no signal held.
Destroy(h) ==
    /\ CallerIdle
    /\ alive[h]
    /\ threadWaitable[h] = NoSlot
    /\ Destroyed(h)
    /\ Return("~ReplacedTexture", h, TRUE, 109)
    /\ UNCHANGED <<descData, mutex, cache, cacheLock, heap, tasks, now, crashed>>

\* ~ReplacedTexture with a signal held, up to the lock of mutex_.
DestroyCancel(h) ==
    /\ CallerIdle
    /\ alive[h]
    /\ threadWaitable[h] # NoSlot
    /\ state' = [state EXCEPT ![h] = "CANCEL_INIT"]
    /\ caller' = [Idle EXCEPT !.pc = "Dtor_100", !.h = h]
    /\ ret' = NoRet
    /\ UNCHANGED <<descData, desc, levelData, levels, alphaStatus, fmt, lastUsed,
                   threadWaitable, mutex, alive, fileRefs, cache, cacheLock, heap,
                   tasks, now, crashed>>

\* ~ReplacedTexture takes mutex_.
DestroyLock(h) ==
    /\ Running
    /\ caller.pc = "Dtor_100" /\ caller.h = h
    /\ mutex[h] = "free"
    /\ mutex' = [mutex EXCEPT ![h] = "dtor"]
    /\ caller' = [caller EXCEPT !.pc = "Dtor_101"]
    /\ ret' = NoRet
    /\ UNCHANGED <<descData, state, desc, levelData, levels, alphaStatus, fmt,
                   lastUsed, threadWaitable, alive, fileRefs, cache, cacheLock,
                   heap, tasks, now, crashed>>

\* ~ReplacedTexture: WaitAndRelease returns, the rest of the destructor runs.
DestroyWaited(h) ==
    /\ Running
    /\ caller.pc = "Dtor_101" /\ caller.h = h
    /\ Triggered(threadWaitable[h])
    /\ Release(threadWaitable[h])
    /\ mutex' = [mutex EXCEPT ![h] = "free"]
    /\ Destroyed(h)
    /\ Return("~ReplacedTexture", h, TRUE, 103)
    /\ UNCHANGED <<descData, cache, cacheLock, now, crashed>>

\* ---------------------------------------------------------- the task thread

\* Task k of handle h is at pc.
TaskAt(h, k, pc) ==
    /\ Running
    /\ k \in 1..Len(tasks[h])
    /\ tasks[h][k].pc = pc

\* The task once Prepare has returned: its locals are gone.
Returned(t) ==
    [t EXCEPT !.pc = "Run_87", !.i = 0, !.result = "LOAD_ERROR",
              !.pixelFormat = "uninitialized"]

\* A step of task k of h that leaves it as t.
SetTask(h, k, t) ==
    /\ tasks' = [tasks EXCEPT ![h][k] = t]
    /\ ret' = NoRet

\* The tasks of h without task k.
RemoveTask(tk, h, k) ==
    [tk EXCEPT ![h] = SubSeq(@, 1, k - 1) \o SubSeq(@, k + 1, Len(@))]

\* Prepare: std::unique_lock<std::mutex> lock(mutex_).
TaskLockMutex(h, k) ==
    /\ TaskAt(h, k, "queued")
    /\ alive[h]
    /\ mutex[h] = "free"
    /\ mutex' = [mutex EXCEPT ![h] = "task"]
    /\ SetTask(h, k, [tasks[h][k] EXCEPT !.pc = "Prepare_193"])
    /\ UNCHANGED <<descData, state, desc, levelData, levels, alphaStatus, fmt,
                   lastUsed, threadWaitable, alive, fileRefs, cache, cacheLock,
                   heap, caller, now, crashed>>

\* Prepare: the lock of the entry, then the first use of desc_.
TaskLockCache(h, k) ==
    /\ TaskAt(h, k, "Prepare_193")
    /\ levelData[h]
    /\ desc[h]
    /\ EntryLockAcquired
    /\ cacheLock' = "task"
    /\ fmt' = [fmt EXCEPT ![h] = "UNDEFINED"]
    /\ SetTask(h, k, [tasks[h][k] EXCEPT
           !.pc = "Prepare_205",
           !.result = IF descData.filenames = << >> THEN "DONE" ELSE "LOAD_ERROR"])
    /\ UNCHANGED <<descData, state, desc, levelData, levels, alphaStatus, lastUsed,
                   threadWaitable, mutex, alive, fileRefs, cache, heap, caller,
                   now, crashed>>

\* The task starts on a handle that is already destroyed: Prepare runs on
\* freed memory.
TaskFreedHandle(h, k) ==
    /\ TaskAt(h, k, "queued")
    /\ ~alive[h]
    /\ Crash("Prepare on a deleted ReplacedTexture")

\* Prepare with desc_ == nullptr: desc_->filenames faults.
TaskNullDesc(h, k) ==
    /\ TaskAt(h, k, "Prepare_193")
    /\ levelData[h]
    /\ ~desc[h]
    /\ EntryLockAcquired
    /\ Crash("desc_ is null")

\* How the loop of Prepare goes on after LoadLevelData returned res for
\* level i with *pixelFormat = pf, the handle's fmt being f: [fmt, stop].
AfterLevel(res, i, f, pf) ==
    CASE res = "DONE" -> [fmt |-> pf, stop |-> TRUE]
      [] res = "CONTINUE" ->
           IF i = 0 THEN [fmt |-> pf, stop |-> FALSE]
           ELSE [fmt |-> f, stop |-> f # pf]
      [] OTHER -> [fmt |-> f, stop |-> TRUE]

\* The loop of Prepare without its check of CANCEL_INIT.
LoopEndsNoCancelCheck(h, i) ==
    IF i >= Min(MAX_REPLACEMENT_MIP_LEVELS, Len(descData.filenames)) THEN TRUE
    ELSE ~descData.filenames[i + 1].name

\* Prepare leaves the loop before it asks for the file of level i.
LoopEnds(h, i) ==
    IF i >= Min(MAX_REPLACEMENT_MIP_LEVELS, Len(descData.filenames)) THEN TRUE
    ELSE IF state[h] = "CANCEL_INIT" THEN TRUE
    ELSE ~descData.filenames[i + 1].name

\* The loop of Prepare ends: the cancel check, the bounds, a missing file.
TaskLoopEnd(h, k) ==
    /\ TaskAt(h, k, "Prepare_205")
    /\ LET t == tasks[h][k] IN
       /\ IF LoopEnds(h, t.i) THEN TRUE ELSE ~descData.filenames[t.i + 1].ref
       /\ SetTask(h, k, [t EXCEPT !.pc = "Prepare_247",
                                  !.result = IF LoopEnds(h, t.i) THEN @ ELSE "DONE"])
    /\ UNCHANGED <<descData, handleVars, cache, cacheLock, heap, caller, now,
                   crashed>>

\* One iteration of the loop of Prepare: GetFile and LoadLevelData.
TaskLevel(h, k) ==
    /\ TaskAt(h, k, "Prepare_205")
    /\ LET t == tasks[h][k]
           i == t.i
       IN
       /\ IF LoopEnds(h, i) THEN FALSE ELSE descData.filenames[i + 1].ref
       /\ \E o \in LoadLevelData(descData.filenames[i + 1], i + 1, i, t.pixelFormat,
                                 descData, levels[h], alphaStatus[h], cache.data,
                                 cache.fmt) :
           LET f0 == IF i = 0 THEN "R8G8B8A8_UNORM" ELSE fmt[h]
               a == AfterLevel(o.res, i, f0, o.pf)
           IN
           IF o.crash # "no" THEN Crash(o.crash)
           ELSE
           /\ fileRefs' = [fileRefs EXCEPT ![h][i + 1] = @ + 1]
           /\ levels' = [levels EXCEPT ![h] = o.levels]
           /\ alphaStatus' = [alphaStatus EXCEPT ![h] = o.alpha]
           /\ cache' = [cache EXCEPT !.data = o.data]
           /\ fmt' = [fmt EXCEPT ![h] = a.fmt]
           /\ SetTask(h, k, [t EXCEPT !.pc = IF a.stop THEN "Prepare_247"
                                             ELSE "Prepare_205",
                                      !.i = IF a.stop THEN i ELSE i + 1,
                                      !.result = o.res,
                                      !.pixelFormat = o.pf])
           /\ UNCHANGED <<descData, state, desc, levelData, lastUsed,
                          threadWaitable, mutex, alive, cacheLock, heap, caller,
                          now, crashed>>

\* Prepare publishing ACTIVE whatever levels_ holds.
FinalStateAlwaysActive(lv) == "ACTIVE"

\* The state Prepare publishes, from what levels_ holds.
FinalState(lv) == IF lv = << >> THEN "NOT_FOUND" ELSE "ACTIVE"

\* The end of Prepare when levels_ is empty: NOT_FOUND, the binding and the
\* descriptor dropped; Prepare returns and its locks are released.
TaskNotFound(h, k) ==
    /\ TaskAt(h, k, "Prepare_247")
    /\ FinalState(levels[h]) = "NOT_FOUND"
    /\ state' = [state EXCEPT ![h] = "NOT_FOUND"]
    /\ levelData' = [levelData EXCEPT ![h] = FALSE]
    /\ desc' = [desc EXCEPT ![h] = FALSE]
    /\ mutex' = [mutex EXCEPT ![h] = "free"]
    /\ cacheLock' = "free"
    /\ SetTask(h, k, Returned(tasks[h][k]))
    /\ UNCHANGED <<descData, levels, alphaStatus, fmt, lastUsed, threadWaitable,
                   alive, fileRefs, cache, heap, caller, now, crashed>>

\* The end of Prepare otherwise: the entry's format is stamped, ACTIVE is
\* published and the descriptor deleted.
TaskActive(h, k) ==
    /\ TaskAt(h, k, "Prepare_247")
    /\ FinalState(levels[h]) = "ACTIVE"
    /\ cache' = [cache EXCEPT !.fmt = fmt[h]]
    /\ state' = [state EXCEPT ![h] = "ACTIVE"]
    /\ desc' = [desc EXCEPT ![h] = FALSE]
    /\ SetTask(h, k, [tasks[h][k] EXCEPT !.pc = "Prepare_266"])
    /\ UNCHANGED <<descData, levelData, levels, alphaStatus, fmt, lastUsed,
                   threadWaitable, mutex, alive, fileRefs, cacheLock, heap, caller,
                   now, crashed>>

\* The ACTIVE path of Prepare: Notify on threadWaitable_, then return.
TaskNotifyPrepare(h, k) ==
    /\ TaskAt(h, k, "Prepare_266")
    /\ heap' = IF threadWaitable[h] # NoSlot
               THEN [heap EXCEPT ![threadWaitable[h]] = "triggered"]
               ELSE heap
    /\ mutex' = [mutex EXCEPT ![h] = "free"]
    /\ cacheLock' = "free"
    /\ SetTask(h, k, Returned(tasks[h][k]))
    /\ UNCHANGED <<descData, state, desc, levelData, levels, alphaStatus, fmt,
                   lastUsed, threadWaitable, alive, fileRefs, cache, caller, now,
                   crashed>>

\* ReplacedTextureTask::Run: waitable_->Notify(), and the task is over.
TaskNotifyRun(h, k) ==
    /\ TaskAt(h, k, "Run_87")
    /\ ~tasks[h][k].dangling
    /\ heap' = [heap EXCEPT ![tasks[h][k].w] = "triggered"]
    /\ tasks' = RemoveTask(tasks, h, k)
    /\ ret' = NoRet
    /\ UNCHANGED <<descData, handleVars, cache, cacheLock, caller, now, crashed>>

\* The same Notify on a waitable that WaitAndRelease has deleted: a write
\* through a dangling pointer.  It lands in freed memory or, when the
\* address has been allocated again, in the waitable that is there now.
TaskNotifyFreed(h, k) ==
    /\ TaskAt(h, k, "Run_87")
    /\ tasks[h][k].dangling
    /\ heap' = IF heap[tasks[h][k].w] = "free" THEN heap
               ELSE [heap EXCEPT ![tasks[h][k].w] = "triggered"]
    /\ tasks' = RemoveTask(tasks, h, k)
    /\ ret' = NoRet
    /\ UNCHANGED <<descData, handleVars, cache, cacheLock, caller, now, crashed>>

\* The same Notify faults.
TaskNotifyFault(h, k) ==
    /\ TaskAt(h, k, "Run_87")
    /\ tasks[h][k].dangling
    /\ Crash("Notify on a deleted waitable")

\* ------------------------------------------------------------ specification

CallerStep ==
    \/ Tick
    \/ \E h \in Handles : FinishPopulate(h)
    \/ \E h \in Handles : IsReadyActive(h)
    \/ \E h \in Handles : IsReadyFalse(h)
    \/ \E h \in Handles, budget \in Budgets : IsReadyDeclined(h, budget)
    \/ \E h \in Handles, budget \in Budgets : IsReadyAssert(h, budget)
    \/ \E h \in Handles, budget \in Budgets : IsReadySpawn(h, budget)
    \/ \E h \in Handles : IsReadyWaited(h)
    \/ \E h \in Handles : IsReadySpawned(h)
    \/ \E h \in Handles, t \in Thresholds : PurgeBegin(h, t)
    \/ \E h \in Handles : PurgeLocked(h)
    \/ \E h \in Handles, level \in 0..1, rowPitch \in RowPitches :
          CopyBegin(h, level, rowPitch)
    \/ \E h \in Handles : CopyNotActive(h)
    \/ \E h \in Handles : CopyLocked(h)
    \/ \E h \in Handles : CopyOutOfRange(h)
    \/ \E h \in Handles : Destroy(h)
    \/ \E h \in Handles : DestroyCancel(h)
    \/ \E h \in Handles : DestroyLock(h)
    \/ \E h \in Handles : DestroyWaited(h)

TaskStep ==
    \E h \in Handles, k \in 1..2 :
       \/ TaskLockMutex(h, k)
       \/ TaskFreedHandle(h, k)
       \/ TaskLockCache(h, k)
       \/ TaskNullDesc(h, k)
       \/ TaskLoopEnd(h, k)
       \/ TaskLevel(h, k)
       \/ TaskNotFound(h, k)
       \/ TaskActive(h, k)
       \/ TaskNotifyPrepare(h, k)
       \/ TaskNotifyRun(h, k)
       \/ TaskNotifyFreed(h, k)
       \/ TaskNotifyFault(h, k)

Next == CallerStep \/ TaskStep

Spec == Init /\ [][Next]_vars

\* ------------------------------------------- the loads of fresh handles
\*
\* The same program with the clock standing still: no PurgeIfOlder is due,
\* so every handle loads at most once.  The descriptors cover the container
\* types and the mip chains of the loader.

LoaderDescs ==
    { Desc(<<Png(2, 2)>>),
      Desc(<<Zim(2, 2)>>),
      Desc(<<Png(2, 2), Png(1, 1), Png(1, 1)>>),
      Desc(<<Png(2, 2), Dds(1, 1, 1, "DXT1")>>),
      Desc(<<Dds(8, 8, 4, "DXT1"), Png(4, 4)>>),
      Desc(<<Png(2, 2), Zim(1, 1)>>),
      Desc(<<Zim(2, 2), Png(1, 1)>>),
      Desc(<<Png(4, 4), [Zim(2, 2) EXCEPT !.body = "fail"], Png(1, 1)>>),
      Desc(<<Png(2, 2), [Png(1, 1) EXCEPT !.body = "finish"], Png(1, 1)>>) }

LoaderInit ==
    /\ descData \in LoaderDescs
    /\ Fresh
    /\ crashed = "no"

LoaderCallerStep ==
    \/ \E h \in Handles : FinishPopulate(h)
    \/ \E h \in Handles : IsReadyActive(h)
    \/ \E h \in Handles : IsReadyFalse(h)
    \/ \E h \in Handles, budget \in Budgets : IsReadyDeclined(h, budget)
    \/ \E h \in Handles, budget \in Budgets : IsReadySpawn(h, budget)
    \/ \E h \in Handles : IsReadyWaited(h)
    \/ \E h \in Handles : IsReadySpawned(h)
    \/ \E h \in Handles, level \in 0..1, rowPitch \in RowPitches :
          CopyBegin(h, level, rowPitch)
    \/ \E h \in Handles : CopyNotActive(h)
    \/ \E h \in Handles : CopyLocked(h)
    \/ \E h \in Handles : CopyOutOfRange(h)
    \/ \E h \in Handles : Destroy(h)
    \/ \E h \in Handles : DestroyCancel(h)
    \/ \E h \in Handles : DestroyLock(h)
    \/ \E h \in Handles : DestroyWaited(h)

LoaderTaskStep ==
    \E h \in Handles :
       \/ TaskLockMutex(h, 1)
       \/ TaskLockCache(h, 1)
       \/ TaskLoopEnd(h, 1)
       \/ TaskLevel(h, 1)
       \/ TaskNotFound(h, 1)
       \/ TaskActive(h, 1)
       \/ TaskNotifyPrepare(h, 1)
       \/ TaskNotifyRun(h, 1)
       \/ TaskNotifyFreed(h, 1)
       \/ TaskNotifyFault(h, 1)

LoaderNext == LoaderCallerStep \/ LoaderTaskStep

LoaderSpec == LoaderInit /\ [][LoaderNext]_vars

\* A failed _assert_ and a fault end the process: `crashed` says which.  No
\* call returns from there, and no step follows.

TypeOK ==
    /\ state \in [Handles -> {"UNINITIALIZED", "POPULATED", "PENDING", "ACTIVE",
                              "NOT_FOUND", "CANCEL_INIT"}]
    /\ threadWaitable \in [Handles -> Slots \cup {NoSlot}]
    /\ heap \in [Slots -> {"free", "armed", "triggered"}]
    /\ cacheLock \in {"free", "task"}
    /\ now \in 0..MaxTime

\* ------------------------------------------------------------------ claims

\* The task of h has finished (it returned from Run) and its signal has fired
\* and is still held by the handle.
Finished(h) ==
    /\ alive[h]
    /\ tasks[h] = << >>
    /\ threadWaitable[h] # NoSlot
    /\ Triggered(threadWaitable[h])

\* C1: whenever IsReady returns true, the handle's state at that moment is
\* ACTIVE or NOT_FOUND.
C1_TrueOnlyWhenLoaded ==
    (ret.op = "IsReady" /\ ret.val) => state[ret.h] \in {"ACTIVE", "NOT_FOUND"}

\* IsReady has just returned true from the wait after it enqueued the task.
C1_ReturnedTrue ==
    /\ ret.op = "IsReady" /\ ret.val /\ ret.line = 173
    /\ state[ret.h] = "ACTIVE"

\* C2: a destructor that found a task outstanding returns: while it is inside,
\* either it or some task can take a step.
C2_DestructorReturns ==
    caller.pc \in {"Dtor_100", "Dtor_101"} => ENABLED Next

\* C3: at most one task (queued or not yet returned from Run) exists for any
\* one handle.
C3_OneTaskPerHandle ==
    \A h \in Handles : Len(tasks[h]) <= 1

\* C4: the descriptor is non-null whenever the state is POPULATED or PENDING,
\* after a purge demoted the handle as well.
C4_DescWhilePopulated ==
    \A h \in Handles :
       (alive[h] /\ state[h] \in {"POPULATED", "PENDING"}) => desc[h]

\* C5: the reload IsReady starts after a purge runs to completion: the task
\* Prepare runs in finds the descriptor it reads.
C5_ReloadRuns ==
    \A h \in Handles : \A k \in 1..Len(tasks[h]) :
       (alive[h] /\ tasks[h][k].pc \in {"queued", "Prepare_193"}) => desc[h]

\* C6: once the task of a handle has finished, the next IsReady(0) on it takes
\* the branch that returns true, whatever PurgeIfOlder calls came in between.
C6_ReadyOnceFinished ==
    \A h \in Handles :
       (Finished(h) /\ caller.pc = "idle") => IsReadySwitch(state[h]) = "ready"

\* C7 as stated: an IsReady that returns while the handle's signal exists and
\* has not fired, in whatever state, has set last-used to the time of the call
\* and returns false.
C7_AnyStateStampsLastUsed ==
    (/\ ret.op = "IsReady"
     /\ threadWaitable[ret.h] # NoSlot
     /\ ~Triggered(threadWaitable[ret.h]))
       => (~ret.val /\ lastUsed[ret.h] = now)

\* C7, amended: IsReady waits on the signal only in ACTIVE or NOT_FOUND; when
\* the signal has not fired as the wait ends it sets last-used to the time of
\* the call and returns false.  Called in PENDING it returns false at once and
\* leaves last-used alone.
C7_WaitsOnlyWhenLoaded ==
    [][\A h \in Handles :
         /\ (caller.pc = "IsReady_136" /\ caller.h = h)
               => state[h] \in {"ACTIVE", "NOT_FOUND"}
         /\ (/\ caller.pc = "IsReady_136" /\ caller.h = h
             /\ caller'.pc = "idle" /\ crashed' = "no"
             /\ ~Triggered(threadWaitable[h]))
               => (/\ ret'.op = "IsReady" /\ ret'.h = h /\ ~ret'.val
                   /\ lastUsed'[h] = now
                   /\ threadWaitable'[h] = threadWaitable[h])
         /\ (/\ caller.pc = "idle" /\ alive[h] /\ state[h] = "PENDING"
             /\ ret'.op = "IsReady" /\ ret'.h = h)
               => (~ret'.val /\ lastUsed'[h] = lastUsed[h])
      ]_vars

\* IsReady has timed out on the signal of a handle that is NOT_FOUND or ACTIVE,
\* later than the handle was last used.
C7_TimedOut ==
    /\ ret.op = "IsReady" /\ ret.line = 138 /\ ~ret.val
    /\ state[ret.h] \in {"ACTIVE", "NOT_FOUND"}
    /\ ~Triggered(threadWaitable[ret.h])
    /\ now > 0 /\ lastUsed[ret.h] = now

\* C8: CopyLevelTo returns false and writes nothing when the entry's buffer
\* sequence has been cleared to length 0.
C8_FailsWhenCleared ==
    (ret.op = "CopyLevelTo" /\ cache.data = << >>)
       => (~ret.val /\ ret.dst = Clean)

\* C9: after a purge has cleared the entry, no CopyLevelTo succeeds until a
\* load has filled it again: a copy that succeeds delivers the bytes of a
\* buffer the entry holds.
C9_CopyNeedsLoad ==
    (ret.op = "CopyLevelTo" /\ ret.val)
       => \E i \in 1..Len(cache.data) :
             cache.data[i].len > 0 /\ cache.data[i].src = ret.dst.src

\* Prepare of a task of h returns or reaches its last statement in this step.
C10_Completes(h) ==
    \E k \in 1..Len(tasks[h]) :
       /\ tasks[h][k].pc = "Prepare_247"
       /\ Len(tasks'[h]) = Len(tasks[h])
       /\ tasks'[h][k].pc # "Prepare_247"

\* C10: when Prepare completes, the state is NOT_FOUND with the binding to the
\* entry released if no level was accepted, and ACTIVE with the entry's format
\* stamped if at least one was; the descriptor is gone in both cases.
C10_FinalState ==
    [][\A h \in Handles :
         C10_Completes(h) =>
            /\ ~desc'[h]
            /\ IF levels[h] = << >>
               THEN state'[h] = "NOT_FOUND" /\ ~levelData'[h]
               ELSE /\ state'[h] = "ACTIVE"
                    /\ levelData'[h]
                    /\ cache'.fmt = fmt[h]
                    /\ cache'.fmt # "UNDEFINED"
      ]_vars

\* Prepare has just published ACTIVE with levels accepted and the format
\* stamped.
C10_PublishedActive ==
    \E h \in Handles : \E k \in 1..Len(tasks[h]) :
       /\ tasks[h][k].pc = "Prepare_266"
       /\ state[h] = "ACTIVE" /\ levels[h] # << >> /\ ~desc[h]
       /\ cache.fmt = "R8G8B8A8_UNORM"

\* The descriptor names one valid single-level PNG or ZIM file of the
\* expected size.
SingleImage ==
    /\ Len(descData.filenames) = 1
    /\ LET f == descData.filenames[1] IN
       /\ f.type \in {"PNG", "ZIM"}
       /\ f.name /\ f.ref /\ f.open /\ f.hdr /\ f.body = "ok"
       /\ f.bw = f.w /\ f.bh = f.h

\* The destructor of h is running: its load is being cancelled.
InDestructor(h) == caller.h = h /\ caller.pc \in {"Dtor_100", "Dtor_101"}

\* C11: a handle whose descriptor names one valid single-level PNG or ZIM
\* file ends its load (not a cancelled one) ACTIVE with exactly one level,
\* and CopyLevelTo(0, ...) with a row pitch that fits then succeeds and
\* returns the bytes decoded from that file.
C11_SingleImageLoads ==
    \A h \in Handles :
       (SingleImage /\ state[h] \in {"ACTIVE", "NOT_FOUND"} /\ ~InDestructor(h)) =>
          /\ state[h] = "ACTIVE"
          /\ Len(levels[h]) = 1
          /\ (ret.op = "CopyLevelTo" /\ ret.h = h /\ ret.line # 690) =>
                (ret.val /\ ret.dst.src = <<1, 0>>)

\* The descriptor names an uncompressed image (PNG, ZIM) for level 0 and a
\* compressed container (DDS, KTX2) for level 1.
MixedFormats ==
    /\ Len(descData.filenames) >= 2
    /\ descData.filenames[1].type \in {"PNG", "ZIM"}
    /\ descData.filenames[2].type \in {"DDS", "KTX2"}

\* C12: when level 0 is uncompressed and the level-1 file is compressed,
\* loading stops after level 0: the handle ends ACTIVE with exactly one
\* level, its format still the format of level 0.
C12_StopsAtFormatMismatch ==
    \A h \in Handles :
       (MixedFormats /\ state[h] = "ACTIVE" /\ ~InDestructor(h)) =>
          /\ Len(levels[h]) = 1
          /\ fmt[h] = "R8G8B8A8_UNORM"

\* C13: whenever a handle is ACTIVE, levels_ and the entry's buffers
\* correspond index for index: every level has its buffer, non-empty and
\* read from the level's file, and no buffer past the levels holds bytes.
C13_LevelsMatchBuffers ==
    \A h \in Handles :
       state[h] = "ACTIVE" =>
          /\ \A i \in 1..Len(levels[h]) :
                /\ i <= Len(cache.data)
                /\ cache.data[i].len # 0
                /\ levels[h][i].fileRef # 0 =>
                      cache.data[i].src[1] = levels[h][i].fileRef
          /\ \A i \in 1..Len(cache.data) :
                i > Len(levels[h]) => cache.data[i].len = 0

\* The tasks inside Prepare's critical section on the entry (from the
\* lock_guard of line 196 to the return of Prepare).
Holders ==
    {x \in Handles \X (1..2) :
        /\ x[2] <= Len(tasks[x[1]])
        /\ tasks[x[1]][x[2]].pc \in {"Prepare_205", "Prepare_247", "Prepare_266"}}

\* C14: every write to the entry's buffers or format and every read of them
\* in CopyLevelTo is made by the one thread that holds the entry's lock: a
\* task writes only while it is the single task between lock and return of
\* Prepare, PurgeIfOlder clears and CopyLevelTo reads only while no task is
\* in there, and no task enters while another is inside.
C14_UnderLock ==
    [][ /\ (crashed' = "no" /\ (cache'.data # cache.data \/ cache'.fmt # cache.fmt)) =>
              \/ Holders = {} /\ caller.pc = "Purge_119" /\ caller'.pc = "idle"
              \/ /\ Cardinality(Holders) = 1
                 /\ \E x \in Holders : tasks'[x[1]] # tasks[x[1]]
        /\ (crashed' = "no" /\ caller.pc = "Copy_675" /\ caller' # caller) =>
              Holders = {}
        /\ (crashed' = "no" /\ Holders' \ Holders # {}) => Holders = {}
      ]_vars

\* A task holds the entry's lock while CopyLevelTo on the other handle
\* waits for it.
C14_CopyWaitsForLoad ==
    /\ caller.pc = "Copy_675"
    /\ Holders # {}
    /\ cacheLock = "task"

\* C15: once a handle is destroyed, every file reference its loads took
\* from the VFS has been released exactly once (none is left, none was
\* released twice), and of the levels of a multi-mip file only the first
\* carries the file reference.
C15_RefsReleasedOnce ==
    /\ \A h \in Handles :
          (~alive[h] /\ crashed = "no") =>
             \A f \in DOMAIN fileRefs[h] : fileRefs[h][f] = 0
    /\ \A h \in Handles : \A i, j \in 1..Len(levels[h]) :
          (i < j /\ levels[h][i].fileRef # 0) =>
             levels[h][j].fileRef # levels[h][i].fileRef

\* The descriptor names a valid DDS file for level 0.
DdsFirst ==
    /\ Len(descData.filenames) >= 1
    /\ LET f == descData.filenames[1] IN
       /\ f.type = "DDS" /\ f.name /\ f.ref /\ f.open /\ f.hdr
       /\ f.fourcc \in {"DXT1", "DXT3", "DXT5"} /\ descData.bc123

\* C16: a load (not a cancelled one) of a DDS file at level 0 with n mips
\* ends with n levels, each the previous one halved (floor, at least 1), and
\* asks the VFS for no further file.
C16_DdsMipChain ==
    \A h \in Handles :
       (DdsFirst /\ state[h] \in {"ACTIVE", "NOT_FOUND"} /\ ~InDestructor(h)) =>
          /\ Len(levels[h]) = descData.filenames[1].mips
          /\ \A i \in 2..Len(levels[h]) :
                /\ levels[h][i].w = Max(1, levels[h][i - 1].w \div 2)
                /\ levels[h][i].h = Max(1, levels[h][i - 1].h \div 2)
          /\ \A f \in 2..Len(descData.filenames) : fileRefs[h][f] = 0

CancelledRun(h) ==
    /\ InDestructor(h)
    /\ Len(tasks[h]) = 1
    /\ LET t == tasks[h][1] IN
       /\ t.pc = "Prepare_266"
       /\ t.result = "CONTINUE"
       /\ t.i < Min(MAX_REPLACEMENT_MIP_LEVELS, Len(descData.filenames))
       /\ descData.filenames[t.i + 1].name
       /\ fmt[h] = t.pixelFormat

\* C18: after a cancelled run the entry holds no buffer and no format stamp
\* that this run produced.
C18_CancelPublishesNothing ==
    \A h \in Handles :
       CancelledRun(h) =>
          /\ \A i \in 1..Len(cache.data) : cache.data[i].len = 0
          /\ cache.fmt = "UNDEFINED"

\* This step is the end of Prepare of a task of h: the task thread's write
\* of the state.
TaskWrites(h) ==
    \E k \in 1..Len(tasks[h]) :
       /\ tasks[h][k].pc = "Prepare_247"
       /\ k <= Len(tasks'[h])
       /\ tasks'[h][k].pc # "Prepare_247"

\* A task of h is submitted and the signal h holds has not fired.
Outstanding(h) ==
    /\ threadWaitable[h] # NoSlot
    /\ heap[threadWaitable[h]] = "armed"

\* C19: the task thread writes the state only from PENDING, to ACTIVE or to
\* NOT_FOUND (never over CANCEL_INIT or another state), and while a task is
\* submitted and its signal has not fired the calling thread writes nothing
\* but the destructor's CANCEL_INIT.
C19_StateWriters ==
    [][ \A h \in Handles :
          (state'[h] # state[h] /\ crashed' = "no" /\ alive'[h]) =>
             IF TaskWrites(h)
             THEN state[h] = "PENDING" /\ state'[h] \in {"ACTIVE", "NOT_FOUND"}
             ELSE Outstanding(h) => state'[h] = "CANCEL_INIT"
      ]_vars

\* Every candidate file is a valid PNG or ZIM image, one level each, and
\* the descriptor does not scale.
PerFileLevels ==
    /\ descData.w = descData.newW /\ descData.h = descData.newH
    /\ \A k \in 1..Len(descData.filenames) :
          LET f == descData.filenames[k] IN
          /\ f.type \in {"PNG", "ZIM"}
          /\ f.name /\ f.ref /\ f.open /\ f.hdr /\ f.body = "ok"
          /\ f.bw = f.w /\ f.bh = f.h

\* The file of every level k >= 1 has exactly the size of level 0 halved k
\* times (floor, at least 1).
ExactMipChain ==
    /\ PerFileLevels
    /\ \A k \in 2..Len(descData.filenames) :
          /\ descData.filenames[k].w =
                Max(1, descData.filenames[1].w \div Pow2(k - 1))
          /\ descData.filenames[k].h =
                Max(1, descData.filenames[1].h \div Pow2(k - 1))

\* C20: a per-file level k >= 1 is accepted only with the size of level 0
\* halved k times (floor, at least 1), and a file of exactly that size is
\* not rejected: a chain of such files is accepted whole, also where level
\* 0 is smaller than 2^k.
C20_HalvedSizesAccepted ==
    \A h \in Handles :
       (PerFileLevels /\ state[h] = "ACTIVE" /\ ~InDestructor(h)) =>
          /\ \A i \in 2..Len(levels[h]) :
                /\ levels[h][i].w = Max(1, levels[h][1].w \div Pow2(i - 1))
                /\ levels[h][i].h = Max(1, levels[h][1].h \div Pow2(i - 1))
          /\ ExactMipChain => Len(levels[h]) = Len(descData.filenames)

\* Loading file f fails: its header does not read, its type is not one
\* LoadLevelData knows, or its decoder rejects the body.
FailsToLoad(f) ==
    /\ f.name /\ f.ref /\ f.open
    /\ \/ ~f.hdr
       \/ f.type \notin {"PNG", "ZIM", "DDS", "KTX2"}
       \/ f.body # "ok"

\* C21: a level that fails to load caps the handle's levels: once the file
\* of level k has failed, the file of no later level is asked for, and no
\* later file becomes a level of the handle.
C21_FailedLevelCaps ==
    \A h \in Handles : \A k \in 1..Len(descData.filenames) :
       (crashed = "no" /\ alive[h] /\ FailsToLoad(descData.filenames[k])) =>
          \A j \in (k + 1)..Len(descData.filenames) :
             /\ fileRefs[h][j] = 0
             /\ \A i \in 1..Len(levels[h]) : levels[h][i].fileRef # j

\* C22 as stated: once level 0 is loaded, loading a level k >= 1 leaves the
\* handle's alpha classification unchanged.
C22_AlphaFromLevelZeroOnly ==
    [][ \A h \in Handles :
          (crashed' = "no" /\ alive'[h] /\ Len(levels[h]) >= 1) =>
             alphaStatus'[h] = alphaStatus[h]
      ]_vars

\* C22, amended: loading a PNG or ZIM file as level k >= 1 leaves the alpha
\* classification unchanged, except that a level that is accepted and whose
\* pixel check finds alpha below opaque turns it to ANY.
C22_LaterLevelOnlyRaisesToAny ==
    [][ \A h \in Handles : \A k \in 1..Len(tasks[h]) :
          LET t == tasks[h][k] IN
          (/\ crashed' = "no" /\ alive'[h]
           /\ t.pc = "Prepare_205" /\ t.i >= 1
           /\ t.i < Len(descData.filenames)
           /\ descData.filenames[t.i + 1].type \in {"PNG", "ZIM"}) =>
             LET f == descData.filenames[t.i + 1]
                 checked == /\ levels'[h] # levels[h]
                            /\ f.type = "ZIM" \/ f.alphaFlag
             IN  alphaStatus'[h] = IF checked /\ f.check = "ANY" THEN "ANY"
                                   ELSE alphaStatus[h]
      ]_vars

\* Level 0 was classified FULL, and the level-1 image, whose pixels have
\* alpha below opaque, has been accepted: the classification is now ANY.
C22_RaisedByLevelOne ==
    \E h \in Handles :
       /\ Len(descData.filenames) = 2
       /\ descData.filenames[1].check = "FULL"
       /\ descData.filenames[2].type \in {"PNG", "ZIM"}
       /\ descData.filenames[2].check = "ANY"
       /\ Len(levels[h]) = 2
       /\ alphaStatus[h] = "ANY"

\* C23: _assert_(!threadWaitable_) of IsReady never fails: whenever IsReady
\* can be called on a POPULATED handle, the handle holds no signal, and the
\* process has not ended on that assertion.
C23_SpawnAssertHolds ==
    /\ crashed # "_assert_(!threadWaitable_)"
    /\ \A h \in Handles :
          (CallerIdle /\ alive[h] /\ state[h] = "POPULATED") =>
             threadWaitable[h] = NoSlot

\* C24: no task ever holds a signal that the calling thread has released
\* (WaitAndRelease deleted it) while a Notify of that task is still to come.
C24_NotifyBeforeRelease ==
    \A h \in Handles : \A k \in 1..Len(tasks[h]) : ~tasks[h][k].dangling

\* The load of h is over and was not cancelled: Prepare has published and
\* returned, and the handle is still there.
Loaded(h) ==
    /\ alive[h]
    /\ ~InDestructor(h)
    /\ state[h] \in {"ACTIVE", "NOT_FOUND"}
    /\ \A k \in 1..Len(tasks[h]) : tasks[h][k].pc = "Run_87"

\* C25: two handles bound to the same entry and given the same files end
\* their loads in the same state with the same number of levels, whichever
\* task ran first.
C25_SameResultForBoth ==
    \A h1, h2 \in Handles :
       (Loaded(h1) /\ Loaded(h2)) =>
          /\ state[h1] = state[h2]
          /\ Len(levels[h1]) = Len(levels[h2])

====
